---------------------------- MODULE Spec2Model ----------------------------
(***************************************************************************)
(* Model of aigents-creator: the batch import controller                   *)
(* (scripts/import_practices.py), the HTTP create handler (src/api/main.py)*)
(* and the generation pipeline (src/llm/orchestrator.py with src/llm/rag). *)
(*                                                                         *)
(* Titles are sequences of characters (one string each), so normalize_title *)
(* is computed the way the regular expressions of the script compute it.   *)
(* Local file I/O (the two progress files, the log) is taken to succeed;   *)
(* every network exchange can fail.                                        *)
(***************************************************************************)
EXTENDS Integers, Sequences, FiniteSets, TLC

(* ------------------------------ bounds -------------------------------- *)

\* longest source (number of chunks re.split yields)
MaxItems == 3
\* number of times the import script is started
MaxRuns == 2
\* number of create requests the service receives
MaxDirect == 2
MaxDocs == 3
MaxTopK == 2

(* ------------------------- titles, normalize_title -------------------- *)

\* the three characters of the quote class of the second re.sub: apostrophe,
\* double quote and backtick, written by name
Quotes == {"apos", "dquote", "btick"}

IsSpace(c) == c = " "

Lower(c) ==
    CASE c = "A" -> "a"
      [] c = "B" -> "b"
      [] c = "C" -> "c"
      [] c = "D" -> "d"
      [] c = "E" -> "e"
      [] c = "F" -> "f"
      [] c = "G" -> "g"
      [] c = "H" -> "h"
      [] c = "I" -> "i"
      [] c = "J" -> "j"
      [] c = "K" -> "k"
      [] c = "L" -> "l"
      [] c = "M" -> "m"
      [] c = "N" -> "n"
      [] c = "O" -> "o"
      [] c = "P" -> "p"
      [] c = "Q" -> "q"
      [] c = "R" -> "r"
      [] c = "S" -> "s"
      [] c = "T" -> "t"
      [] c = "U" -> "u"
      [] c = "V" -> "v"
      [] c = "W" -> "w"
      [] c = "X" -> "x"
      [] c = "Y" -> "y"
      [] c = "Z" -> "z"
      [] OTHER -> c

RECURSIVE LStrip(_)
LStrip(s) == IF s # <<>> /\ IsSpace(Head(s)) THEN LStrip(Tail(s)) ELSE s

RECURSIVE RStrip(_)
RStrip(s) ==
    IF s # <<>> /\ IsSpace(s[Len(s)]) THEN RStrip(SubSeq(s, 1, Len(s) - 1)) ELSE s

Strip(s) == RStrip(LStrip(s))

\* the alternatives The, A, An of the pattern; the match is case-sensitive
Articles == {<<"T", "h", "e">>, <<"A">>, <<"A", "n">>}

MatchesArticle(s, a) ==
    /\ Len(s) > Len(a)
    /\ SubSeq(s, 1, Len(a)) = a
    /\ IsSpace(s[Len(a) + 1])

\* re.sub of a leading article: the article and all the whitespace after it go
StripArticle(s) ==
    IF \E a \in Articles : MatchesArticle(s, a)
    THEN LET a == CHOOSE x \in Articles : MatchesArticle(s, x)
         IN  LStrip(SubSeq(s, Len(a) + 1, Len(s)))
    ELSE s

RemoveQuotes_Kept(s) == s

NotQuote(c) == c \notin Quotes

\* re.sub of the quote class by the empty string
RemoveQuotes(s) == SelectSeq(s, NotQuote)

ToLower(s) == [k \in 1..Len(s) |-> Lower(s[k])]

normalize_title(title) == ToLower(RemoveQuotes(StripArticle(Strip(title))))

\* the titles the source file and the API callers draw from
T_TheAb == <<"T", "h", "e", " ", "A", "b">>
T_ab == <<"a", "b">>
T_Abs == <<"A", "b", "s">>
TitlePool == {T_TheAb, T_ab, T_Abs}

\* the default title of _normalize_response, abbreviated to its initials
DefaultTitle == <<"S", "P", "I", "F">>

Range(s) == {s[k] : k \in 1..Len(s)}

\* the set of normalize_title(line) over the lines of a progress file
NormSet(lines) == {normalize_title(lines[k]) : k \in 1..Len(lines)}


(* ------------------------------- state -------------------------------- *)

VARIABLES
    \* scripts/import_practices.py
    source,                 \* practices: the chunks re.split yields from the file
    success_file,           \* logs/successful_practices.txt, one title per line
    failed_practices_file,  \* logs/failed_practices.txt, one title per line
    successful_practices,   \* the in-memory set of normalized titles
    i,                      \* the loop index of main (enumerate from 1)
    bpc,                    \* where the script is
    total, success, failed, skipped,   \* the statistics of main
    log,                    \* the messages logger wrote in this run
    run,                    \* how many times the script has been started
    \* src/api/main.py and src/llm/orchestrator.py
    ppc,                    \* the stage of the create request being served
    idea,                   \* the idea of the request being served
    context,                \* what retrieval returned for the idea
    prompt,                 \* the prompt built from the idea and the context
    payload,                \* the reply text of the generation backend
    record,                 \* practice_json after _normalize_response
    failedAt,               \* the stage that raised
    calls,                  \* network calls made while serving this request
    storage_posts,          \* every POST received by the storage backend
    directs,                \* create requests received so far
    returned,               \* what generate_practice returned to the handler
    raised,                 \* the exception that ended the request
    \* src/llm/rag/retriever.py
    rpc,                    \* where retrieve is
    documents,              \* the practices of the database, in the order read
    top_k,                  \* the argument of retrieve
    embedding_calls,        \* calls of retrieve to the embedding backend
    bm25_scores,            \* the list _calculate_bm25_scores returned
    vector_scores,          \* the list _calculate_vector_scores returned
    normalized_bm25,        \* the list of that name in _combine_scores
    normalized_vector,      \* the list of that name in _combine_scores
    combined_scores,        \* the list _combine_scores returned
    scored_docs,            \* scored_docs, as indices of documents
    result                  \* what retrieve returned, as indices of documents

batchVars == <<source, success_file, failed_practices_file, successful_practices,
               i, bpc, total, success, failed, skipped, log, run>>

pipeVars == <<ppc, idea, context, prompt, payload, record, failedAt, calls, storage_posts,
              directs, returned, raised>>

retrVars == <<rpc, documents, top_k, embedding_calls, bm25_scores, vector_scores,
              normalized_bm25, normalized_vector, combined_scores, scored_docs, result>>

vars == <<source, success_file, failed_practices_file, successful_practices,
          i, bpc, total, success, failed, skipped, log, run,
          ppc, idea, context, prompt, payload, record, failedAt, calls, storage_posts,
          directs, returned, raised,
          rpc, documents, top_k, embedding_calls, bm25_scores, vector_scores,
          normalized_bm25, normalized_vector, combined_scores, scored_docs, result>>

(* ------------------------------ the source ---------------------------- *)

\* a chunk with a heading that parse_practice matches
Item(t) == [kind |-> "item", title |-> t]
\* a chunk that is not blank and in which parse_practice finds no heading
Bad == [kind |-> "bad", title |-> <<>>]
\* a chunk of whitespace: only the text before the first heading can be one
Blank == [kind |-> "blank", title |-> <<>>]

Chunks == {Item(t) : t \in TitlePool} \cup {Bad, Blank}

\* re.split always yields at least one chunk; a chunk after the first starts
\* with its heading, so it is never blank
Sources ==
    UNION {{s \in [1..n -> Chunks] : \A k \in 2..n : s[k] # Blank} : n \in 1..MaxItems}

NoTitle == <<>>
NoIdea == [title |-> NoTitle]
NoContext == [ready |-> FALSE, n |-> 0]
NoPrompt == [ready |-> FALSE, title |-> NoTitle, n |-> 0]
NoPayload == [json |-> FALSE, obj |-> [title |-> NoTitle]]
NoRecord == [title |-> NoTitle, category |-> "none"]
NoReturn == [json |-> FALSE]

\* an exception: its class, the text it was made with, and the schema
\* violations it carries
Exc(type, message) == [type |-> type, message |-> message, violations |-> {}]
NoError == Exc("none", "none")
NoCalls == [embed_search |-> 0, embed |-> 0, generation |-> 0, storage |-> 0]

\* the import script has not started
BatchInit ==
    /\ source \in Sources
    /\ success_file = <<>>
    /\ failed_practices_file = <<>>
    /\ successful_practices = {}
    /\ i = 0
    /\ bpc = "boot"
    /\ total = 0 /\ success = 0 /\ failed = 0 /\ skipped = 0
    /\ log = <<>>
    /\ run = 1

\* the service has no request
PipelineInit ==
    /\ ppc = "idle"
    /\ idea = NoIdea
    /\ context = NoContext
    /\ prompt = NoPrompt
    /\ payload = NoPayload
    /\ record = NoRecord
    /\ failedAt = "none"
    /\ calls = NoCalls
    /\ storage_posts = <<>>
    /\ directs = 0
    /\ returned = NoReturn
    /\ raised = NoError

\* retrieve has not been called
RetrieverInit ==
    /\ rpc = "idle"
    /\ documents = <<>>
    /\ top_k = 1
    /\ embedding_calls = 0
    /\ bm25_scores = <<>>
    /\ vector_scores = <<>>
    /\ normalized_bm25 = <<>>
    /\ normalized_vector = <<>>
    /\ combined_scores = <<>>
    /\ scored_docs = <<>>
    /\ result = <<>>

Init ==
    /\ BatchInit
    /\ PipelineInit
    /\ RetrieverInit


(* ------------------- scripts/import_practices.py ---------------------- *)

\* what logger writes; at is the loop index the message is about
Ev(e, at) == [ev |-> e, at |-> at]

Current == source[i]
TitleOf(k) == source[k].title

AlreadyCreated_RawTitle(title) == title \in successful_practices

AlreadyCreated_OrFailed(title) ==
    \/ normalize_title(title) \in successful_practices
    \/ title \in Range(failed_practices_file)

\* normalize_title(practice_data['title']) in successful_practices
AlreadyCreated(title) == normalize_title(title) \in successful_practices

\* total = len([p for p in practices if p.strip()])
TotalOf(src) == Cardinality({k \in DOMAIN src : src[k].kind # "blank"})

ShouldWait_Never(idx, src) == FALSE

ShouldWait_Always(idx, src) == TRUE

\* if i < len(practices): "do not wait after the last practice"
ShouldWait(idx, src) == idx < Len(src)

\* the module-level load of the success set, run when the script starts
LoadProgress ==
    /\ bpc = "boot"
    /\ successful_practices' = NormSet(success_file)
    /\ bpc' = "main"
    /\ UNCHANGED <<source, success_file, failed_practices_file, i, total, success,
                   failed, skipped, log, run>>
    /\ UNCHANGED <<pipeVars, retrVars>>

\* main up to the loop: the statistics
MainBegin ==
    /\ bpc = "main"
    /\ total' = TotalOf(source)
    /\ success' = Cardinality(successful_practices)
    /\ failed' = 0
    /\ skipped' = 0
    /\ i' = 0
    /\ bpc' = "loop"
    /\ UNCHANGED <<source, success_file, failed_practices_file, successful_practices,
                   log, run>>
    /\ UNCHANGED <<pipeVars, retrVars>>

\* one iteration of the for loop up to the call of create_practice: a blank
\* chunk, a chunk parse_practice returns None for and an already created
\* title all continue with the next chunk, without the pause
LoopStep ==
    /\ bpc = "loop"
    /\ i < Len(source)
    /\ i' = i + 1
    /\ LET chunk == source[i + 1] IN
         CASE chunk.kind = "blank" ->
                /\ bpc' = "loop"
                /\ UNCHANGED <<skipped, log>>
           [] chunk.kind = "bad" ->
                /\ bpc' = "loop"
                /\ UNCHANGED <<skipped, log>>
           [] chunk.kind = "item" /\ AlreadyCreated(chunk.title) ->
                /\ skipped' = skipped + 1
                /\ log' = Append(log, Ev("skip", i + 1))
                /\ bpc' = "loop"
           [] OTHER ->
                /\ bpc' = "create"
                /\ UNCHANGED <<skipped, log>>
    /\ UNCHANGED <<source, success_file, failed_practices_file, successful_practices,
                   total, success, failed, run>>
    /\ UNCHANGED <<pipeVars, retrVars>>

\* create_practice up to the POST to /practice/create: its own test of the
\* success set returns without a request
CreateBegin ==
    /\ bpc = "create"
    /\ IF AlreadyCreated(Current.title)
       THEN /\ log' = Append(log, Ev("skip", i))
            /\ bpc' = "returned"
       ELSE /\ log' = Append(log, Ev("start", i))
            /\ bpc' = "await"
    /\ UNCHANGED <<source, success_file, failed_practices_file, successful_practices,
                   i, total, success, failed, skipped, run>>
    /\ UNCHANGED <<pipeVars, retrVars>>

\* how the request to the API can end: a 2xx response with a JSON body, a
\* response raise_for_status rejects, no response (transport error, timeout)
PostOutcomes == {"ok", "status_error", "transport_error"}

OnFailure_NoRecord(file, title) == file

\* except Exception in create_practice: the title goes to the failure log and
\* create_practice returns normally
OnFailure(file, title) == Append(file, title)

AfterFailure_ThenAppend == "append"

\* the except branch is the end of create_practice: nothing follows the
\* write to the failure log
AfterFailure == "returned"

\* the request ends; the service is another process, and all the script sees
\* of it is this outcome
PostReturns ==
    /\ bpc = "await"
    /\ \E outcome \in PostOutcomes :
         IF outcome = "ok"
         THEN /\ log' = Append(log, Ev("created", i))
              /\ bpc' = "append"
              /\ UNCHANGED failed_practices_file
         ELSE /\ log' = Append(log, Ev("failed", i))
              /\ failed_practices_file' = OnFailure(failed_practices_file, Current.title)
              /\ bpc' = AfterFailure
    /\ UNCHANGED <<source, success_file, successful_practices, i, total, success,
                   failed, skipped, run>>
    /\ UNCHANGED <<pipeVars, retrVars>>

AppendSuccess_NoWrite ==
    /\ bpc = "append"
    /\ bpc' = "add"
    /\ UNCHANGED <<source, success_file, failed_practices_file, successful_practices,
                   i, total, success, failed, skipped, log, run>>
    /\ UNCHANGED <<pipeVars, retrVars>>

\* with open(success_file, "a"): f.write(title)
AppendSuccess ==
    /\ bpc = "append"
    /\ success_file' = Append(success_file, Current.title)
    /\ bpc' = "add"
    /\ UNCHANGED <<source, failed_practices_file, successful_practices, i, total,
                   success, failed, skipped, log, run>>
    /\ UNCHANGED <<pipeVars, retrVars>>

\* successful_practices.add(normalized_title)
AddSuccess ==
    /\ bpc = "add"
    /\ successful_practices' = successful_practices \cup {normalize_title(Current.title)}
    /\ bpc' = "returned"
    /\ UNCHANGED <<source, success_file, failed_practices_file, i, total, success,
                   failed, skipped, log, run>>
    /\ UNCHANGED <<pipeVars, retrVars>>

\* main after create_practice returned: success += 1 (create_practice raises
\* nothing, so the except branch with failed += 1 is never taken), then the
\* pause unless this was the last chunk
AfterCreate ==
    /\ bpc = "returned"
    /\ success' = success + 1
    /\ IF ShouldWait(i, source)
       THEN /\ log' = Append(log, Ev("wait", i))
            /\ bpc' = "sleep"
       ELSE /\ bpc' = "loop"
            /\ UNCHANGED log
    /\ UNCHANGED <<source, success_file, failed_practices_file, successful_practices,
                   i, total, failed, skipped, run>>
    /\ UNCHANGED <<pipeVars, retrVars>>

\* await asyncio.sleep(30) is over
Sleep ==
    /\ bpc = "sleep"
    /\ bpc' = "loop"
    /\ UNCHANGED <<source, success_file, failed_practices_file, successful_practices,
                   i, total, success, failed, skipped, log, run>>
    /\ UNCHANGED <<pipeVars, retrVars>>

SummaryDue_Never(idx, src) == FALSE

\* the for loop over enumerate(practices, 1) has no chunk left
SummaryDue(idx, src) == idx = Len(src)

\* the source is exhausted: the summary is logged and main returns
Summary ==
    /\ bpc = "loop"
    /\ SummaryDue(i, source)
    /\ log' = Append(log, Ev("summary", i))
    /\ bpc' = "done"
    /\ UNCHANGED <<source, success_file, failed_practices_file, successful_practices,
                   i, total, success, failed, skipped, run>>
    /\ UNCHANGED <<pipeVars, retrVars>>

\* the process ends (main returned, or it is killed at any point) and the
\* script is started again on the same source: memory is lost, the two
\* progress files stay, a new log file is opened
Restart ==
    /\ run < MaxRuns
    /\ bpc # "boot"
    /\ run' = run + 1
    /\ bpc' = "boot"
    /\ successful_practices' = {}
    /\ i' = 0
    /\ total' = 0 /\ success' = 0 /\ failed' = 0 /\ skipped' = 0
    /\ log' = <<>>
    /\ UNCHANGED <<source, success_file, failed_practices_file>>
    /\ UNCHANGED <<pipeVars, retrVars>>


(* ------------- src/api/main.py, src/llm/orchestrator.py --------------- *)

\* dict.get(key, default)
Get(d, key, default) == IF key \in DOMAIN d THEN d[key] ELSE default

Categories == {"concept", "implementation"}

\* the objects the generation backend answers with for an idea: the title is
\* the idea's or is missing, the category is one of the two, something else,
\* or missing
ReplyObjects(ideaTitle) ==
    {[title |-> ideaTitle, category |-> c] : c \in {"concept", "draft"}}
        \cup {[category |-> "implementation"], [title |-> ideaTitle]}

\* the answer text: a JSON object, or text json.loads rejects
Replies(ideaTitle) ==
    {[json |-> TRUE, obj |-> o] : o \in ReplyObjects(ideaTitle)}
        \cup {[json |-> FALSE, obj |-> [title |-> ideaTitle]]}

\* d[key] = val
With(d, key, val) == [k \in DOMAIN d \cup {key} |-> IF k = key THEN val ELSE d[k]]

\* a JSON value that is a string, and one that is a list
Str(chars) == [list |-> FALSE, s |-> chars]
Lst(items) == [list |-> TRUE, l |-> items]

D_general == <<"g", "e", "n", "e", "r", "a", "l">>
D_ops == <<"o", "p", "s">>
D_security == <<"s", "e", "c", "u", "r", "i", "t", "y">>
D_qa == <<"q", "a">>
D_x == <<"x">>
D_process_improvement ==
    <<"p", "r", "o", "c", "e", "s", "s", "_", "i", "m", "p", "r", "o", "v", "e", "m",
      "e", "n", "t">>

\* list(text): iterating a string yields its characters, each a string
Chars(text) == [k \in 1..Len(text) |-> <<text[k]>>]

\* text[1:]
Rest(text) == SubSeq(text, 2, Len(text))

\* the local variable domain after lines 37-39
DomainString(response) ==
    LET domain == Get(response, "domain", Str(D_general))
    IN  IF domain.list
        THEN IF domain.l # <<>> THEN domain.l[1] ELSE D_general
        ELSE domain.s

\* the response after lines 38-44: sub_domains.extend(domain[1:]) runs on the
\* string the variable domain holds by then, and changes the list of the
\* response in place when the response has one (a list made by the default of
\* get is dropped)
FoldDomain(response) ==
    IF /\ Get(response, "domain", Str(D_general)).list
       /\ Len(DomainString(response)) > 1
       /\ "sub_domains" \in DOMAIN response
    THEN With(response, "sub_domains",
              response.sub_domains \o Chars(Rest(DomainString(response))))
    ELSE response

default_steps ==
    <<[order |-> 1, title |-> "Plan and Prepare", description |-> "Define objectives"],
      [order |-> 2, title |-> "Execute and Monitor",
       description |-> "Implement the practice"]>>

\* the second arguments of response.get in _normalize_response, the long
\* texts cut to their first words
Defaults ==
    [title |-> DefaultTitle,
     summary |-> "A comprehensive methodology",
     problem |-> "Organizations often struggle",
     solution |-> "Implementation of a structured framework",
     visual_type |-> "",
     visual_url |-> "",
     visual_alt_text |-> "",
     benefits |-> <<"Significant improvement", "Enhanced quality">>,
     limitations |-> <<"Requires significant time", "May face resistance">>,
     implementation_steps |-> default_steps,
     implementation_requirements |->
        <<"Experienced process improvement specialists",
          "Appropriate analysis and monitoring tools">>,
     estimated_resources |->
        <<"Process documentation and analysis tools",
          "Training materials and facilitation resources">>,
     sub_domains |-> <<D_process_improvement>>,
     tags |-> <<"best_practice", "process_improvement">>,
     creator |-> "system",
     category |-> "concept"]

\* the fields _normalize_response reads with response.get(field, default)
GetFields == DOMAIN Defaults

\* _normalize_response
normalize_response(response) ==
    LET r == FoldDomain(response)
    IN  [f \in GetFields \cup {"domain", "estimated_financial_cost_value",
                               "estimated_financial_cost_currency",
                               "estimated_time_cost_minutes", "language"} |->
            CASE f = "domain" -> DomainString(response)
              [] f = "estimated_financial_cost_value" -> 0
              [] f = "estimated_financial_cost_currency" -> "USD"
              [] f = "estimated_time_cost_minutes" -> 60
              [] f = "language" -> "en"
              [] OTHER -> Get(r, f, Defaults[f])]

WithIdea_PayloadCreator(practice_json, idea_) ==
    IF "creator" \in DOMAIN practice_json THEN practice_json
    ELSE With(practice_json, "creator", Get(idea_, "creator", "system"))

\* practice_json["creator"] = creator_id, and the category of the idea's
\* additional_details when it has one
WithIdea(practice_json, idea_) ==
    LET c == With(practice_json, "creator", Get(idea_, "creator", "system"))
    IN  IF /\ "additional_details" \in DOMAIN idea_
           /\ "category" \in DOMAIN idea_.additional_details
        THEN With(c, "category", idea_.additional_details.category)
        ELSE c

\* the list-valued fields of a practice record
ListFields ==
    {"benefits", "limitations", "implementation_steps", "implementation_requirements",
     "estimated_resources", "sub_domains", "tags"}

\* validate(instance, schema): the title is there, the category is one of the
\* two, no list field is empty
SchemaValid(rec) ==
    /\ rec.title # NoTitle
    /\ rec.category \in Categories
    /\ \A f \in ListFields : rec[f] # <<>>

\* if response.status in [200, 201]
SavedStatus(status) == status \in {200, 201}

StorageStatuses == {200, 201, 500}

\* the records the storage backend holds: the POSTs it answered 200 or 201
Stored == SelectSeq(storage_posts, LAMBDA p : SavedStatus(p.status))

\* what _get_embedding raises: the transport fails, or the answer has no
\* embedding
EmbeddingErrors == {Exc("ClientError", "connection"), Exc("KeyError", "embedding")}

\* what generate_with_rag raises: the transport fails, or the status is not 200
GenerationErrors == {Exc("ClientError", "connection"), Exc("Exception", "Dify API error")}

Fail(stage, exc) ==
    /\ ppc' = "Failed"
    /\ failedAt' = stage
    /\ raised' = exc

CountCall_Retried(c, kind) == [c EXCEPT ![kind] = @ + 2]

\* one more network call of a kind
CountCall(c, kind) == [c EXCEPT ![kind] = @ + 1]

\* get_context(query, top_k = 3)
ContextTopK == 3

Min(a, b) == IF a < b THEN a ELSE b

\* POST /practice/create arrives
ApiCreate ==
    /\ ppc = "idle"
    /\ directs < MaxDirect
    /\ \E t \in TitlePool : idea' = [title |-> t]
    /\ directs' = directs + 1
    /\ ppc' = "Similar"
    /\ context' = NoContext
    /\ prompt' = NoPrompt
    /\ payload' = NoPayload
    /\ record' = NoRecord
    /\ failedAt' = "none"
    /\ calls' = NoCalls
    /\ returned' = NoReturn
    /\ raised' = NoError
    /\ UNCHANGED storage_posts
    /\ UNCHANGED <<batchVars, retrVars>>

\* create_practice of the API: search.find_similar embeds the text first;
\* generate_practice is called when it returned
FindSimilar ==
    /\ ppc = "Similar"
    /\ calls' = CountCall(calls, "embed_search")
    /\ \E ok \in BOOLEAN :
         IF ok THEN ppc' = "Retrieving" /\ UNCHANGED <<failedAt, raised>>
               ELSE \E e \in EmbeddingErrors : Fail("Similar", e)
    /\ UNCHANGED <<idea, context, prompt, payload, record, storage_posts, directs, returned>>
    /\ UNCHANGED <<batchVars, retrVars>>

\* augment_with_context up to the return of get_context: retrieve reads the
\* stored practices and embeds the query only when there are any
Retrieve ==
    /\ ppc = "Retrieving"
    /\ \/ /\ calls' = IF Stored # <<>> THEN CountCall(calls, "embed") ELSE calls
          /\ context' = [ready |-> TRUE, n |-> Min(ContextTopK, Len(Stored))]
          /\ ppc' = "Prompting"
          /\ UNCHANGED <<failedAt, raised>>
       \/ \* the connection or the query fails, before any embedding
          /\ Fail("Retrieving", Exc("PostgresError", "connection"))
          /\ UNCHANGED <<calls, context>>
       \/ \* the embedding call, or what follows it, fails
          /\ Stored # <<>>
          /\ calls' = CountCall(calls, "embed")
          /\ \E e \in EmbeddingErrors : Fail("Retrieving", e)
          /\ UNCHANGED context
    /\ UNCHANGED <<idea, prompt, payload, record, storage_posts, directs, returned>>
    /\ UNCHANGED <<batchVars, retrVars>>

\* augment_with_context: the prompt text, from the idea and the context
BuildPrompt ==
    /\ ppc = "Prompting"
    /\ prompt' = [ready |-> TRUE, title |-> idea.title, n |-> context.n]
    /\ ppc' = "Generating"
    /\ UNCHANGED <<idea, context, payload, record, failedAt, calls, storage_posts,
                   directs, returned, raised>>
    /\ UNCHANGED <<batchVars, retrVars>>

\* generate_with_rag: one POST to the generation backend
Generate ==
    /\ ppc = "Generating"
    /\ calls' = CountCall(calls, "generation")
    /\ \/ /\ \E r \in Replies(idea.title) : payload' = r
          /\ ppc' = "Parsing"
          /\ UNCHANGED <<failedAt, raised>>
       \/ /\ \E e \in GenerationErrors : Fail("Generating", e)
          /\ UNCHANGED payload
    /\ UNCHANGED <<idea, context, prompt, record, storage_posts, directs, returned>>
    /\ UNCHANGED <<batchVars, retrVars>>

AfterParse_SkipNormalize(decoded) == IF decoded THEN "Validating" ELSE "Failed"

\* the stage after json.loads(practice_json_str)
AfterParse(decoded) == IF decoded THEN "Normalizing" ELSE "Failed"

\* json.loads
Parse ==
    /\ ppc = "Parsing"
    /\ ppc' = AfterParse(payload.json)
    /\ failedAt' = IF ppc' = "Failed" THEN "Parsing" ELSE failedAt
    /\ raised' = IF ppc' = "Failed" THEN Exc("Exception", "Invalid JSON generated by LLM")
                                    ELSE raised
    /\ UNCHANGED <<idea, context, prompt, payload, record, calls, storage_posts,
                   directs, returned>>
    /\ UNCHANGED <<batchVars, retrVars>>

\* the creator and the category of the idea are put into the decoded object,
\* then _normalize_response
Normalize ==
    /\ ppc = "Normalizing"
    /\ record' = normalize_response(WithIdea(payload.obj, idea))
    /\ ppc' = "Validating"
    /\ UNCHANGED <<idea, context, prompt, payload, failedAt, calls, storage_posts,
                   directs, returned, raised>>
    /\ UNCHANGED <<batchVars, retrVars>>

AfterValidate_Unchecked(valid) == "Persisting"

\* the stage after validate(instance=practice_json, schema=self.schema)
AfterValidate(valid) == IF valid THEN "Persisting" ELSE "Failed"

Validate ==
    /\ ppc = "Validating"
    /\ ppc' = AfterValidate(SchemaValid(record))
    /\ failedAt' = IF ppc' = "Failed" THEN "Validating" ELSE failedAt
    /\ raised' = IF ppc' = "Failed"
                 THEN Exc("Exception", "Generated practice does not match schema")
                 ELSE raised
    /\ UNCHANGED <<idea, context, prompt, payload, record, calls, storage_posts,
                   directs, returned>>
    /\ UNCHANGED <<batchVars, retrVars>>

\* the answers of the storage backend: a status, and a body that is the JSON
\* of the stored practice or is not JSON; the body is only decoded for 200
\* and 201
StorageReplies ==
    {[status |-> st, json |-> TRUE] : st \in StorageStatuses}
        \cup {[status |-> st, json |-> FALSE] : st \in {200, 201}}

\* the stored representation the backend answers with: the practice and the
\* id the backend gave it
Representation(rec, posts) == [json |-> TRUE, id |-> Len(posts) + 1, practice |-> rec]

AfterPost_StatusOnly(status, decodable) == IF SavedStatus(status) THEN "Completed" ELSE "Failed"

\* lines 149-158: return json.loads(response_text) for 200 and 201, raise for
\* another status; json.loads raises when the body is not JSON
AfterPost(status, decodable) ==
    IF SavedStatus(status) /\ decodable THEN "Completed" ELSE "Failed"

\* session.post(practice_url, json=practice_json): nothing is looked up first
Persist ==
    /\ ppc = "Persisting"
    /\ calls' = CountCall(calls, "storage")
    /\ \E reply \in StorageReplies :
         /\ storage_posts' = Append(storage_posts,
                [idea |-> idea.title, body |-> record, status |-> reply.status,
                 json |-> reply.json])
         /\ ppc' = AfterPost(reply.status, reply.json)
         /\ failedAt' = IF ppc' = "Failed" THEN "Persisting" ELSE failedAt
         /\ raised' = IF ppc' # "Failed" THEN raised
                      ELSE IF SavedStatus(reply.status)
                           THEN Exc("JSONDecodeError", "Expecting value")
                           ELSE Exc("Exception", "Failed to save practice")
         /\ returned' = IF ppc' = "Completed" THEN Representation(record, storage_posts)
                                              ELSE NoReturn
    /\ UNCHANGED <<idea, context, prompt, payload, record, directs>>
    /\ UNCHANGED <<batchVars, retrVars>>

\* the handler of the API returns the practice, or HTTPException 500, and the
\* request is over
Respond ==
    /\ ppc \in {"Completed", "Failed"}
    /\ ppc' = "idle"
    /\ idea' = NoIdea
    /\ context' = NoContext
    /\ prompt' = NoPrompt
    /\ payload' = NoPayload
    /\ record' = NoRecord
    /\ failedAt' = "none"
    /\ calls' = NoCalls
    /\ returned' = NoReturn
    /\ raised' = NoError
    /\ UNCHANGED <<storage_posts, directs>>
    /\ UNCHANGED <<batchVars, retrVars>>

(* ---------------------------- specifications -------------------------- *)

\* the import script; the service it posts to is its environment
Next ==
    \/ LoadProgress
    \/ MainBegin
    \/ LoopStep
    \/ CreateBegin
    \/ PostReturns
    \/ AppendSuccess
    \/ AddSuccess
    \/ AfterCreate
    \/ Sleep
    \/ Summary
    \/ Restart

Spec == Init /\ [][Next]_vars

\* the steps of the script itself: each is a statement that ends (the POST
\* has a timeout of 180 seconds, the pause lasts 30), so the script goes on as
\* long as it is not stopped from outside
BatchStep ==
    \/ LoadProgress
    \/ MainBegin
    \/ LoopStep
    \/ CreateBegin
    \/ PostReturns
    \/ AppendSuccess
    \/ AddSuccess
    \/ AfterCreate
    \/ Sleep
    \/ Summary

SpecLive == Init /\ [][Next]_vars /\ WF_vars(BatchStep)

\* the service: the API handler and the pipeline behind it
InitPipeline == Init /\ source = <<Blank>>

NextPipeline ==
    \/ ApiCreate
    \/ FindSimilar
    \/ Retrieve
    \/ BuildPrompt
    \/ Generate
    \/ Parse
    \/ Normalize
    \/ Validate
    \/ Persist
    \/ Respond

SpecPipeline == InitPipeline /\ [][NextPipeline]_vars

(* ------------------------------ claims -------------------------------- *)

\* C1: the storage backend never holds two persisted records whose normalized
\* titles are equal.
C1_NoTitleCollision ==
    \A a, b \in 1..Len(Stored) :
        a # b => normalize_title(Stored[a].body.title) # normalize_title(Stored[b].body.title)

\* C2: a storage POST is issued only for a record that passed schema
\* validation, and a request that fails in retrieval, generation, parsing or
\* validation has made no call to the storage backend.
C2_PostOnlyAfterValidation ==
    /\ \A k \in 1..Len(storage_posts) : SchemaValid(storage_posts[k].body)
    /\ calls.storage > 0 => SchemaValid(record) /\ failedAt \in {"none", "Persisting"}
    /\ (ppc = "Failed" /\ failedAt # "Persisting") => calls.storage = 0

\* a request failed in validation (and has posted nothing)
C2_Witness ==
    /\ ppc = "Failed"
    /\ failedAt = "Validating"
    /\ ~SchemaValid(record)
    /\ calls.storage = 0

\* C3: of two requests whose idea titles normalize to the same key only one
\* writes to storage: once a write for the key was saved, a later request with
\* that key completes without a write.
C3_OneWritePerTitle ==
    \A a, b \in 1..Len(storage_posts) :
        (a < b /\ SavedStatus(storage_posts[a].status))
            => normalize_title(storage_posts[a].idea) # normalize_title(storage_posts[b].idea)

\* reading the log of the current run
Has(e, j) == \E k \in 1..Len(log) : log[k] = Ev(e, j)
Times(e, j) == Cardinality({k \in 1..Len(log) : log[k] = Ev(e, j)})
Count(lg, e) == Cardinality({k \in 1..Len(lg) : lg[k].ev = e})
IsItem(j) == source[j].kind = "item"
KeyOf(j) == normalize_title(source[j].title)

\* C4: an item whose normalized title is in the success set when it is reached
\* causes no request (the loop goes on to the next chunk and nothing is
\* started); every other parsable item goes to create_practice, which posts it.
C4_SkipMakesNoCall ==
    /\ [](\A j \in 1..Len(source) : Has("skip", j) => ~Has("start", j))
    /\ [][/\ (bpc = "loop" /\ i' = i + 1 /\ IsItem(i'))
             => IF KeyOf(i') \in successful_practices
                THEN bpc' = "loop" /\ Count(log', "start") = Count(log, "start")
                ELSE bpc' = "create"
          /\ (bpc = "create" /\ bpc' # "create" /\ run' = run)
             => bpc' = "await" /\ log' = Append(log, Ev("start", i))]_vars

\* a request is in flight for an item that follows a skipped one
C4_Witness ==
    /\ bpc = "await"
    /\ Has("start", i)
    /\ \E j \in 1..(i - 1) : Has("skip", j) /\ KeyOf(j) \in successful_practices

\* the titles of the failures logged in this run, in order
FailedTitles ==
    LET f == SelectSeq(log, LAMBDA e : e.ev = "failed")
    IN  [k \in 1..Len(f) |-> source[f[k].at].title]

IsSuffix(t, s) ==
    /\ Len(t) <= Len(s)
    /\ SubSeq(s, Len(s) - Len(t) + 1, Len(s)) = t

\* C5: every failed creation of the run has its raw title appended to the
\* failure log, the script goes on after it, and when main ends every item of
\* the source has been processed (skipped or attempted).
C5_FailureIsolated ==
    /\ IsSuffix(FailedTitles, failed_practices_file)
    /\ \A j \in 1..Len(source) :
         Has("failed", j) =>
            /\ bpc \in {"returned", "sleep", "loop", "create", "await", "append", "add", "done"}
            /\ j <= i
    /\ bpc = "done" =>
         /\ i = Len(source)
         /\ \A j \in 1..Len(source) : IsItem(j) => Has("skip", j) \/ Has("start", j)

\* main ended in a run in which an item failed and a later item was attempted
C5_Witness ==
    /\ bpc = "done"
    /\ \E j, k \in 1..Len(source) : j < k /\ Has("failed", j) /\ Has("start", k)

\* C6: the in-memory success set is the normalized success file whenever an
\* item is examined (seeded at start, file and set extended after each
\* success); no request is made for a title whose success is on file, in the
\* same run or after a restart; a success of this run is on file unless it is
\* the in-flight item, whose line is not written yet.
C6_SuccessSetDurable ==
    /\ bpc \notin {"boot", "add"} => successful_practices = NormSet(success_file)
    /\ bpc = "add" =>
         NormSet(success_file) = successful_practices \cup {KeyOf(i)}
    /\ bpc \in {"create", "await"} => KeyOf(i) \notin NormSet(success_file)
    /\ \A j \in 1..Len(source) :
         (Has("created", j) /\ ~(j = i /\ bpc = "append"))
            => source[j].title \in Range(success_file)

\* a run restarted after a crash skips an item on file: the second run has
\* skipped an item and has an item ahead that is in neither progress file,
\* which an earlier run that reached its end would have left in one of them
C6_Witness ==
    /\ run = 2
    /\ bpc = "loop"
    /\ \E j \in 1..i : Has("skip", j) /\ source[j].title \in Range(success_file)
    /\ \E k \in (i + 1)..Len(source) :
         /\ IsItem(k)
         /\ KeyOf(k) \notin NormSet(success_file)
         /\ source[k].title \notin Range(failed_practices_file)

\* chunk j has been through the loop body of this run
Processed(j) == j < i \/ (j = i /\ bpc # "create")

\* C7: a processed item whose normalized title is not in the success set has
\* been attempted in this run, whatever the failure log holds, and an item is
\* skipped only when its normalized title is in the success set.
C7_FailedIsRetried ==
    \A j \in 1..i :
        /\ (IsItem(j) /\ Processed(j) /\ KeyOf(j) \notin NormSet(success_file))
              => Has("start", j)
        /\ Has("skip", j) => KeyOf(j) \in NormSet(success_file)

\* the second run attempts an item that the first run left in the failure log
C7_Witness ==
    /\ run = 2
    /\ bpc = "await"
    /\ Count(log, "failed") = 0
    /\ Current.title \in Range(failed_practices_file)

\* C8: between two attempts of a run the script has waited at least once, and
\* a wait only ever follows the end of an attempt directly, never a skip.
C8_DelayBetweenAttempts ==
    /\ \A a, b \in 1..Len(log) :
         (a < b /\ log[a].ev = "start" /\ log[b].ev = "start")
            => \E c \in (a + 1)..(b - 1) : log[c].ev = "wait"
    /\ \A c \in 1..Len(log) :
         log[c].ev = "wait" =>
            /\ c > 1
            /\ log[c - 1].ev \in {"created", "failed"}
            /\ log[c - 1].at = log[c].at

\* two attempts with a skipped item between them, and one wait
C8_Witness ==
    /\ Count(log, "wait") = 1
    /\ \E a, b, c \in 1..Len(log) :
         /\ a < b /\ b < c
         /\ log[a].ev = "wait" /\ log[b].ev = "skip" /\ log[c].ev = "start"

\* C9 as stated: one attempt per non-skipped item, and the number of delays of
\* a run is the number of attempts minus one (zero without attempts).
C9_DelaysAreAttemptsMinusOne ==
    bpc = "done" =>
        /\ \A j \in 1..Len(source) :
             IsItem(j) => Times("start", j) = (IF Has("skip", j) THEN 0 ELSE 1)
        /\ Count(log, "wait") =
             (IF Count(log, "start") = 0 THEN 0 ELSE Count(log, "start") - 1)

\* C9 amended: one attempt per non-skipped item, and a delay after every
\* attempt except an attempt of the last chunk of the source: the number of
\* delays is the number of attempts, minus one when the last chunk was
\* attempted.
C9_DelayAfterEachButLast ==
    bpc = "done" =>
        /\ \A j \in 1..Len(source) :
             /\ IsItem(j) => Times("start", j) = (IF Has("skip", j) THEN 0 ELSE 1)
             /\ Times("wait", j) = (IF Has("start", j) /\ j < Len(source) THEN 1 ELSE 0)
        /\ Count(log, "wait") =
             Count(log, "start") - (IF Has("start", Len(source)) THEN 1 ELSE 0)

\* main ended after two attempts and a skip of the last item
C9_Witness ==
    /\ bpc = "done"
    /\ Count(log, "start") = 2
    /\ Count(log, "wait") = 2
    /\ Has("skip", Len(source))

\* C10: in the summary succeeded, failed and skipped are the numbers of items
\* created, failed and skipped in this run, and they add up to total.
C10_SummaryCounts ==
    bpc = "done" =>
        /\ success = Count(log, "created")
        /\ failed = Count(log, "failed")
        /\ skipped = Count(log, "skip")
        /\ success + failed + skipped = total

\* the stages of section 4.4 in their order
StageOrder ==
    <<"Retrieving", "Prompting", "Generating", "Parsing", "Normalizing", "Validating",
      "Persisting", "Completed">>

StageIndex(st) == CHOOSE k \in 1..Len(StageOrder) : StageOrder[k] = st

InStageOrder(st) == \E k \in 1..Len(StageOrder) : StageOrder[k] = st

\* C11: a request goes through Retrieving, Prompting, Generating, Parsing,
\* Normalizing, Validating, Persisting in this order, one stage at a time and
\* never back; a stage starts with the result of the one before it; a request
\* ends in Completed or in Failed and leaves neither for another stage.
C11_StagesInOrder ==
    /\ [](/\ ppc \in {"Prompting", "Generating", "Parsing", "Normalizing", "Validating",
                      "Persisting", "Completed"} => context.ready
          /\ ppc \in {"Generating", "Parsing", "Normalizing", "Validating", "Persisting",
                      "Completed"} => prompt.ready /\ calls.generation <= 1
          /\ ppc \in {"Parsing", "Normalizing", "Validating", "Persisting", "Completed"}
               => calls.generation = 1 /\ payload # NoPayload
          /\ ppc \in {"Normalizing", "Validating", "Persisting", "Completed"} => payload.json
          /\ ppc \in {"Validating", "Persisting", "Completed"} => record # NoRecord
          /\ ppc = "Retrieving" => ~context.ready
          /\ ppc = "Prompting" => ~prompt.ready
          /\ ppc \in {"Retrieving", "Prompting", "Generating"} => payload = NoPayload
          /\ ppc \in {"Retrieving", "Prompting", "Generating", "Parsing", "Normalizing"}
               => record = NoRecord
          /\ ppc = "Completed" => failedAt = "none"
          /\ ppc = "Failed" => failedAt # "none")
    /\ [][(ppc' # ppc /\ InStageOrder(ppc) /\ ppc # "Completed")
             => \/ ppc' = StageOrder[StageIndex(ppc) + 1]
                \/ ppc' = "Failed" /\ failedAt' = ppc]_vars
    /\ [][(ppc' # ppc /\ ppc \in {"Completed", "Failed"}) => ppc' = "idle"]_vars

\* a request has gone through every stage
C11_Witness ==
    /\ ppc = "Completed"
    /\ calls.storage = 1
    /\ context.ready /\ prompt.ready /\ payload.json /\ SchemaValid(record)

\* C12 as stated: a request that got to the pipeline has, when it ends, made
\* exactly one call to the generation backend, at most one to the storage
\* backend and at most one to the embedding backend.
C12_ExactlyOneGeneration ==
    (ppc \in {"Completed", "Failed"} /\ failedAt # "Similar") =>
        /\ calls.generation = 1
        /\ calls.storage <= 1
        /\ calls.embed <= 1

\* C12 amended: at most one call to each backend at any time (nothing is
\* retried); when the request ends, one call to the generation backend unless
\* Retrieving failed, and then none; one call to the storage backend exactly
\* when Persisting was reached.
C12_AtMostOneCallEach ==
    /\ calls.generation <= 1 /\ calls.storage <= 1 /\ calls.embed <= 1
    /\ (ppc \in {"Completed", "Failed"} /\ failedAt # "Similar") =>
         /\ calls.generation = (IF failedAt = "Retrieving" THEN 0 ELSE 1)
         /\ calls.storage = (IF failedAt \in {"none", "Persisting"} THEN 1 ELSE 0)

\* a request failed in Retrieving and the generation backend was not called
C12_Witness ==
    /\ ppc = "Failed"
    /\ failedAt = "Retrieving"
    /\ calls.generation = 0

(* --------- _normalize_response over a range of decoded answers --------- *)

\* a key that may be missing, with the value it has when it is there
Absent == [has |-> FALSE]
Present(v) == [has |-> TRUE, v |-> v]

\* the object with the key set when there is a value for it
Put(d, key, opt) == IF opt.has THEN With(d, key, opt.v) ELSE d

Without(d, key) == [k \in DOMAIN d \ {key} |-> d[k]]

\* the values of domain in the answers: missing, a string, an empty list,
\* lists of one and of two domains
DomainChoices ==
    {Absent, Present(Str(D_ops)), Present(Lst(<<>>)), Present(Lst(<<D_ops>>)),
     Present(Lst(<<D_ops, D_security>>)), Present(Lst(<<D_x, D_security>>))}

SubDomainChoices == {Absent, Present(<<>>), Present(<<D_qa>>)}

BenefitChoices == {Absent, Present(<<>>), Present(<<"Faster feedback">>)}

CreatorChoices == {Absent, Present("mallory")}

CategoryChoices == {Absent, Present("implementation"), Present("draft")}

OneStep == <<[order |-> 1, title |-> "Start", description |-> "Begin"]>>

\* one more key of the answer: a list that is empty or has an item, a text
\* that is empty or not; or the title taken away
FocusChoices ==
    {[key |-> "none", opt |-> Absent], [key |-> "title", opt |-> Absent]}
      \cup {[key |-> f, opt |-> Present(v)] :
              f \in {"limitations", "implementation_requirements", "estimated_resources",
                     "tags"},
              v \in {<<>>, <<"item">>}}
      \cup {[key |-> "implementation_steps", opt |-> Present(v)] : v \in {<<>>, OneStep}}
      \cup {[key |-> f, opt |-> Present(v)] :
              f \in {"summary", "problem", "solution", "visual_type", "visual_url",
                     "visual_alt_text"},
              v \in {"", "text"}}

WithFocus(d, fc) ==
    IF fc.key = "none" THEN d
    ELSE IF fc.opt.has THEN With(d, fc.key, fc.opt.v) ELSE Without(d, fc.key)

\* the decoded answers
NormalizeObjects ==
    {WithFocus(Put(Put(Put(Put(Put([title |-> T_ab],
            "domain", dm), "sub_domains", sd), "benefits", bn), "creator", cr),
            "category", ct), fc) :
        dm \in DomainChoices, sd \in SubDomainChoices, bn \in BenefitChoices,
        cr \in CreatorChoices, ct \in CategoryChoices, fc \in FocusChoices}

\* the ideas: with and without a creator, with and without a category in
\* additional_details
NormalizeIdeas ==
    {Put(Put([title |-> T_ab], "creator", cr), "additional_details", ad) :
        cr \in {Absent, Present("alice")},
        ad \in {Absent, Present([category |-> "implementation"])}}

\* generate_with_rag has just returned the text of one of the answers
InitNormalize ==
    /\ BatchInit
    /\ source = <<Blank>>
    /\ ppc = "Parsing"
    /\ idea \in NormalizeIdeas
    /\ context = [ready |-> TRUE, n |-> 0]
    /\ prompt = [ready |-> TRUE, title |-> idea.title, n |-> 0]
    /\ payload \in {[json |-> TRUE, obj |-> o] : o \in NormalizeObjects}
    /\ calls = [NoCalls EXCEPT !.embed_search = 1, !.generation = 1]
    /\ record = NoRecord
    /\ failedAt = "none"
    /\ storage_posts = <<>>
    /\ directs = 0
    /\ returned = NoReturn
    /\ raised = NoError
    /\ RetrieverInit

NextNormalize ==
    \/ Parse
    \/ Normalize
    \/ Validate
    \/ Persist
    \/ Respond

SpecNormalize == InitNormalize /\ [][NextNormalize]_vars

Normalized == ppc \in {"Validating", "Persisting", "Completed"} \/ failedAt \in {"Validating", "Persisting"}

\* C13: when the domain of the answer is a list of several domains, the
\* domain of the record is the first of them and each of the others is an
\* item of the sub_domains of the record.
C13_DomainsFolded ==
    (/\ Normalized
     /\ "domain" \in DOMAIN payload.obj
     /\ payload.obj.domain.list
     /\ Len(payload.obj.domain.l) > 1) =>
        /\ record.domain = payload.obj.domain.l[1]
        /\ \A k \in 2..Len(payload.obj.domain.l) :
              payload.obj.domain.l[k] \in Range(record.sub_domains)

\* C14: the creator of the record is the creator of the idea, or system when
\* the idea has none, and the record is the same whatever creator the
\* answer carries, or if it carries none.
C14_CreatorFromIdea ==
    Normalized =>
        /\ record.creator = Get(idea, "creator", "system")
        /\ \A k \in 1..Len(storage_posts) :
              storage_posts[k].body.creator = Get(idea, "creator", "system")
        /\ \A cr \in {"mallory", "alice", "system", "root"} :
              record = normalize_response(WithIdea(With(payload.obj, "creator", cr), idea))
        /\ record = normalize_response(WithIdea(Without(payload.obj, "creator"), idea))

\* the answer names a creator, the idea names another, and the record that
\* was stored has the idea's
C14_Witness ==
    /\ ppc = "Completed"
    /\ "creator" \in DOMAIN payload.obj
    /\ payload.obj.creator = "mallory"
    /\ "creator" \in DOMAIN idea
    /\ storage_posts # <<>>
    /\ storage_posts[Len(storage_posts)].body.creator = "alice"

\* the fields whose value is the answer's when it has one: those read with
\* response.get, but for the creator and the category, which the idea sets
PayloadFields == GetFields \ {"creator", "category"}

\* C15: a field missing from the answer has its default in the record, and a
\* text or list field the answer has reaches validation with the value of
\* the answer.
C15_DefaultsOnlyWhenAbsent ==
    Normalized =>
        \A f \in PayloadFields :
            record[f] = (IF f \in DOMAIN payload.obj THEN payload.obj[f] ELSE Defaults[f])

\* C16: no record is sent to the storage backend with an empty list field.
C16_NoEmptyListStored ==
    /\ \A k \in 1..Len(storage_posts) :
          \A f \in ListFields : storage_posts[k].body[f] # <<>>
    /\ ppc \in {"Persisting", "Completed"} => \A f \in ListFields : record[f] # <<>>

\* the answer has an empty benefits list: the record has it too, validation
\* fails and nothing is sent
C16_Witness ==
    /\ ppc = "Failed"
    /\ failedAt = "Validating"
    /\ "benefits" \in DOMAIN payload.obj
    /\ payload.obj.benefits = <<>>
    /\ record.benefits = <<>>
    /\ record.category \in Categories
    /\ \A f \in ListFields \ {"benefits"} : record[f] # <<>>
    /\ storage_posts = <<>>

(* ---------------------- src/llm/rag/retriever.py ----------------------- *)

\* a float that is a ratio of integers, the denominator positive
Q(n, d) == IF d < 0 THEN [n |-> 0 - n, d |-> 0 - d] ELSE [n |-> n, d |-> d]
QAdd(a, b) == Q(a.n * b.d + b.n * a.d, a.d * b.d)
QMul(a, b) == Q(a.n * b.n, a.d * b.d)
QEq(a, b) == a.n * b.d = b.n * a.d
QLess(a, b) == a.n * b.d < b.n * a.d
QDiv(a, b) == Q(a.n * b.d, a.d * b.n)

\* self.bm25_weight = 0.3, self.vector_weight = 0.7
bm25_weight == Q(3, 10)
vector_weight == Q(7, 10)

\* what bm25.get_scores gives a document, and the cosine of the angle between
\* the embedding of the query and that of a document
Bm25Values == {Q(0 - 2, 1), Q(0 - 1, 1), Q(0, 1), Q(1, 1)}
Similarities == {Q(0 - 1, 1), Q(0 - 1, 2), Q(0, 1), Q(1, 1)}

\* a row of the query: its lexical score for the query, whether the join
\* found an embedding for it, and the cosine if it did
Docs ==
    {[bm25 |-> b, embedding |-> TRUE, sim |-> c] : b \in Bm25Values, c \in Similarities}
        \cup {[bm25 |-> b, embedding |-> FALSE, sim |-> Q(0, 1)] : b \in Bm25Values}

DocumentSets == UNION {[1..n -> Docs] : n \in 0..MaxDocs}

\* the state of the variables of retrieve before it has set them
RetrieveLocals ==
    /\ embedding_calls = 0
    /\ bm25_scores = <<>>
    /\ vector_scores = <<>>
    /\ normalized_bm25 = <<>>
    /\ normalized_vector = <<>>
    /\ combined_scores = <<>>
    /\ scored_docs = <<>>
    /\ result = <<>>

\* retrieve(query, top_k) is called; the database has some set of practices
InitRetrieve ==
    /\ BatchInit
    /\ source = <<Blank>>
    /\ PipelineInit
    /\ rpc = "fetching"
    /\ documents \in DocumentSets
    /\ top_k \in 1..MaxTopK
    /\ RetrieveLocals

AfterFetch_AlwaysEmbeds(docs) == "embedding"

\* if not documents: return []
AfterFetch(docs) == IF docs = <<>> THEN "returned" ELSE "embedding"

\* asyncpg.connect, conn.fetch and the test for no documents
Fetch ==
    /\ rpc = "fetching"
    /\ \/ rpc' = AfterFetch(documents)
       \/ rpc' = "raised"
    /\ UNCHANGED <<documents, top_k, embedding_calls, bm25_scores, vector_scores,
                   normalized_bm25, normalized_vector, combined_scores, scored_docs,
                   result>>
    /\ UNCHANGED <<batchVars, pipeVars>>

\* _get_embedding(query): one POST to the embedding backend
GetEmbedding ==
    /\ rpc = "embedding"
    /\ embedding_calls' = embedding_calls + 1
    /\ \/ rpc' = "scoring"
       \/ rpc' = "raised"
    /\ UNCHANGED <<documents, top_k, bm25_scores, vector_scores, normalized_bm25,
                   normalized_vector, combined_scores, scored_docs, result>>
    /\ UNCHANGED <<batchVars, pipeVars>>

VectorScoreOf_MissingAsOne(doc) == IF ~doc.embedding THEN Q(1, 1) ELSE doc.sim

\* _calculate_vector_scores, for one document
VectorScoreOf(doc) == IF ~doc.embedding THEN Q(0, 1) ELSE doc.sim

calculate_bm25_scores(docs) == [k \in 1..Len(docs) |-> docs[k].bm25]

calculate_vector_scores(docs) == [k \in 1..Len(docs) |-> VectorScoreOf(docs[k])]

\* max(scores)
MaxOf(scores) == CHOOSE x \in Range(scores) : \A y \in Range(scores) : ~QLess(x, y)

\* max_bm25 and max_vector of _combine_scores
Normalizer(scores) ==
    LET m == IF scores # <<>> THEN MaxOf(scores) ELSE Q(1, 1)
    IN  IF m.n = 0 THEN Q(1, 1) ELSE m

\* [score/max for score in scores]
NormalizeScores(scores) == [k \in 1..Len(scores) |-> QDiv(scores[k], Normalizer(scores))]

\* the weighted sums of _combine_scores
WeightedSums(bm25, vector) ==
    [k \in 1..Min(Len(bm25), Len(vector)) |->
        QAdd(QMul(bm25_weight, bm25[k]), QMul(vector_weight, vector[k]))]

\* the three score lists of retrieve, the last by _combine_scores
Score ==
    /\ rpc = "scoring"
    /\ bm25_scores' = calculate_bm25_scores(documents)
    /\ vector_scores' = calculate_vector_scores(documents)
    /\ normalized_bm25' = NormalizeScores(bm25_scores')
    /\ normalized_vector' = NormalizeScores(vector_scores')
    /\ combined_scores' = WeightedSums(normalized_bm25', normalized_vector')
    /\ rpc' = "sorting"
    /\ UNCHANGED <<documents, top_k, embedding_calls, scored_docs, result>>
    /\ UNCHANGED <<batchVars, pipeVars>>

ComesBefore_OrEqual(new, old) == ~QLess(new, old)

\* whether a pair goes in front of one already placed: list.sort is stable,
\* also with reverse=True, so only when its score is greater
ComesBefore(new, old) == QLess(old, new)

\* the place of one more pair in a list sorted so far
RECURSIVE Insert(_, _, _)
Insert(sorted, k, scores) ==
    IF sorted = <<>> THEN <<k>>
    ELSE IF ComesBefore(scores[k], scores[Head(sorted)]) THEN <<k>> \o sorted
    ELSE <<Head(sorted)>> \o Insert(Tail(sorted), k, scores)

\* scored_docs.sort(key=lambda x: x[1], reverse=True), on zip(documents, scores)
RECURSIVE SortFrom(_, _, _)
SortFrom(k, scores, sorted) ==
    IF k > Len(scores) THEN sorted
    ELSE SortFrom(k + 1, scores, Insert(sorted, k, scores))

SortDescending(scores) == SortFrom(1, scores, <<>>)

\* the sort and scored_docs[:top_k]
Rank ==
    /\ rpc = "sorting"
    /\ scored_docs' = SortDescending(combined_scores)
    /\ result' = SubSeq(scored_docs', 1, Min(top_k, Len(scored_docs')))
    /\ rpc' = "returned"
    /\ UNCHANGED <<documents, top_k, embedding_calls, bm25_scores, vector_scores,
                   normalized_bm25, normalized_vector, combined_scores>>
    /\ UNCHANGED <<batchVars, pipeVars>>

NextRetrieve ==
    \/ Fetch
    \/ GetEmbedding
    \/ Score
    \/ Rank

SpecRetrieve == InitRetrieve /\ [][NextRetrieve]_vars

Ranked == rpc = "returned" /\ documents # <<>>

\* C17: the ranking of retrieve has every document once, in descending order
\* of combined score, two documents of equal score in their order in the
\* input; what is returned is its first top_k documents.
C17_DescendingAndStable ==
    Ranked =>
        /\ Len(scored_docs) = Len(documents)
        /\ Range(scored_docs) = 1..Len(documents)
        /\ \A a, b \in 1..Len(scored_docs) :
              a < b =>
                 /\ ~QLess(combined_scores[scored_docs[a]], combined_scores[scored_docs[b]])
                 /\ QEq(combined_scores[scored_docs[a]], combined_scores[scored_docs[b]])
                       => scored_docs[a] < scored_docs[b]
        /\ result = SubSeq(scored_docs, 1, Min(top_k, Len(documents)))

\* three documents, the last with the greatest score and the first two with
\* equal scores: the last comes first and the two keep their order
C17_Witness ==
    /\ Ranked
    /\ Len(documents) = 3
    /\ scored_docs = <<3, 1, 2>>
    /\ QEq(combined_scores[1], combined_scores[2])
    /\ documents[1] # documents[2]
    /\ result = SubSeq(<<3, 1, 2>>, 1, top_k)

\* C18: a document without an embedding is in the ranking, its vector score
\* is 0 and its combined score is the lexical weight times its normalized
\* lexical score.
C18_MissingEmbeddingIsZero ==
    /\ rpc \in {"sorting", "returned"} =>
          \A k \in 1..Len(documents) :
             ~documents[k].embedding =>
                /\ QEq(vector_scores[k], Q(0, 1))
                /\ QEq(normalized_vector[k], Q(0, 1))
                /\ QEq(combined_scores[k], QMul(Q(3, 10), normalized_bm25[k]))
    /\ Ranked =>
          \A k \in 1..Len(documents) :
             ~documents[k].embedding => \E a \in 1..Len(scored_docs) : scored_docs[a] = k

\* a document without an embedding, with a positive lexical score, is ranked
\* before one that has an embedding, and some document has a positive
\* similarity
C18_Witness ==
    /\ Ranked
    /\ \E a, b \in 1..Len(scored_docs) :
          /\ a < b
          /\ ~documents[scored_docs[a]].embedding
          /\ documents[scored_docs[a]].bm25.n > 0
          /\ documents[scored_docs[b]].embedding
    /\ \E k \in 1..Len(documents) : documents[k].embedding /\ documents[k].sim.n > 0

\* C20: with no candidate documents retrieve returns the empty list and has
\* not called the embedding backend.
C20_EmptySetNoEmbedding ==
    /\ documents = <<>> => embedding_calls = 0 /\ rpc \in {"fetching", "returned", "raised"}
    /\ (rpc = "returned" /\ documents = <<>>) => result = <<>> /\ scored_docs = <<>>

\* retrieve has returned for an empty set of candidates
C20_Witness ==
    /\ rpc = "returned"
    /\ documents = <<>>
    /\ result = <<>>
    /\ embedding_calls = 0

(* ------------------ the normalization of a score list ------------------ *)

Scored == rpc \in {"sorting", "returned"}

\* a document with a higher raw score never has a lower normalized score
KeepsOrder(raw, normalized) ==
    \A a, b \in 1..Len(raw) :
        QLess(raw[b], raw[a]) => ~QLess(normalized[a], normalized[b])

\* C25: dividing a list of lexical or vector scores by its maximum keeps the
\* order of the documents in that list, also when every value is negative: a
\* document with a higher raw score never has a lower normalized score.
C25_NormalizationKeepsOrder ==
    Scored =>
        /\ Len(normalized_bm25) = Len(bm25_scores)
        /\ Len(normalized_vector) = Len(vector_scores)
        /\ KeepsOrder(bm25_scores, normalized_bm25)
        /\ KeepsOrder(vector_scores, normalized_vector)

\* two documents with embeddings whose cosines are -1/2 and -1: the maximum
\* is -1/2, the normalized scores are 1 and 2
C25_AllNegativeReversed ==
    /\ Scored
    /\ Len(documents) = 2
    /\ \A k \in 1..2 : documents[k].embedding
    /\ QEq(vector_scores[1], Q(0 - 1, 2))
    /\ QEq(vector_scores[2], Q(0 - 1, 1))
    /\ QEq(normalized_vector[1], Q(1, 1))
    /\ QEq(normalized_vector[2], Q(2, 1))

(* ------------- normalize_title on the titles of section 8 -------------- *)

W_The == <<"T", "h", "e">>
W_Agile == <<"A", "g", "i", "l", "e">>
W_agile == <<"a", "g", "i", "l", "e">>
W_Retrospective == <<"R", "e", "t", "r", "o", "s", "p", "e", "c", "t", "i", "v", "e">>
W_retrospective == <<"r", "e", "t", "r", "o", "s", "p", "e", "c", "t", "i", "v", "e">>
Sp == <<" ">>

T_TheAgileRetrospective == W_The \o Sp \o W_Agile \o Sp \o W_Retrospective
T_agile_retrospective == W_agile \o Sp \o W_retrospective
T_AgileRetrospectiveApos == W_Agile \o Sp \o W_Retrospective \o <<"apos", "s">>
T_AgileRetrospectives == W_Agile \o Sp \o W_Retrospective \o <<"s">>

TitleInputs ==
    {T_TheAgileRetrospective, T_agile_retrospective, T_AgileRetrospectiveApos,
     T_AgileRetrospectives}

\* the script starts with one title in the success file and a source of two
\* practices
InitTitle ==
    /\ source \in {<<Item(a), Item(b)>> : a, b \in TitleInputs}
    /\ success_file \in {<<t>> : t \in TitleInputs}
    /\ failed_practices_file = <<>>
    /\ successful_practices = {}
    /\ i = 0
    /\ bpc = "boot"
    /\ total = 0 /\ success = 0 /\ failed = 0 /\ skipped = 0
    /\ log = <<>>
    /\ run = 1
    /\ PipelineInit
    /\ RetrieverInit

SpecTitle == InitTitle /\ [][Next]_vars

\* the titles the claim puts together
StatedSame(a, b) ==
    LET same == {T_TheAgileRetrospective, T_agile_retrospective, T_AgileRetrospectiveApos}
    IN  (a \in same /\ b \in same) \/ a = b

\* the titles that have one key
SameKey(a, b) ==
    \/ {a, b} \subseteq {T_TheAgileRetrospective, T_agile_retrospective}
    \/ {a, b} \subseteq {T_AgileRetrospectiveApos, T_AgileRetrospectives}

\* C19 as stated: The Agile Retrospective, agile retrospective and Agile
\* Retrospective with apostrophe-s have one key and Agile Retrospectives has
\* another: a title of the source is in the loaded success set, and is
\* skipped, exactly when the file has a title of its group.
C19_StatedEquivalences ==
    /\ bpc = "main" =>
          \A j \in 1..Len(source) :
             normalize_title(TitleOf(j)) \in successful_practices
                <=> \E k \in 1..Len(success_file) : StatedSame(success_file[k], TitleOf(j))
    /\ \A j \in 1..Len(source) :
          Has("skip", j) => \E k \in 1..Len(success_file) :
                                StatedSame(success_file[k], TitleOf(j))

\* C19 amended: The Agile Retrospective and agile retrospective have the key
\* agile retrospective; Agile Retrospective with apostrophe-s and Agile
\* Retrospectives have the other key agile retrospectives.
C19_KeysOfTheFourTitles ==
    /\ bpc = "main" =>
          /\ successful_practices \subseteq
                {W_agile \o Sp \o W_retrospective, W_agile \o Sp \o W_retrospective \o <<"s">>}
          /\ \A j \in 1..Len(source) :
                normalize_title(TitleOf(j)) \in successful_practices
                   <=> \E k \in 1..Len(success_file) : SameKey(success_file[k], TitleOf(j))
    /\ \A j \in 1..Len(source) :
          Has("skip", j) => \E k \in 1..Len(success_file) :
                                SameKey(success_file[k], TitleOf(j))

\* the file has Agile Retrospectives and the item Agile Retrospective with
\* apostrophe-s is skipped
C19_Witness ==
    /\ run = 1
    /\ success_file = <<T_AgileRetrospectives>>
    /\ TitleOf(1) = T_AgileRetrospectiveApos
    /\ Has("skip", 1)

(* --------- normalize_title on titles that differ in letter case --------- *)

T_theAb == <<"t", "h", "e", " ", "A", "b">>
T_Ab == <<"A", "b">>

CaseInputs == {T_TheAb, T_theAb, T_Ab, T_ab}

\* the script starts with one title in the success file and a source of two
\* practices
InitCase ==
    /\ source \in {<<Item(a), Item(b)>> : a, b \in CaseInputs}
    /\ success_file \in {<<t>> : t \in CaseInputs}
    /\ failed_practices_file = <<>>
    /\ successful_practices = {}
    /\ i = 0
    /\ bpc = "boot"
    /\ total = 0 /\ success = 0 /\ failed = 0 /\ skipped = 0
    /\ log = <<>>
    /\ run = 1
    /\ PipelineInit
    /\ RetrieverInit

SpecCase == InitCase /\ [][Next]_vars

\* two titles that differ only in the case of their letters
SameLetters(a, b) == ToLower(a) = ToLower(b)

\* C26: normalize_title is case-insensitive: two titles that differ only in
\* the case of their letters, the letters of a leading article included,
\* have the same key, so a title of the source is in the loaded success set
\* when the success file has a title with the same letters.
C26_CaseInsensitiveKeys ==
    bpc = "main" =>
          \A j \in 1..Len(source) : \A k \in 1..Len(success_file) :
             SameLetters(success_file[k], TitleOf(j))
                => normalize_title(TitleOf(j)) \in successful_practices

\* the file has The Ab, whose key is ab; the item the Ab has the key the ab,
\* is not in the loaded set and is posted again
C26_LowerCaseArticleKept ==
    /\ run = 1
    /\ success_file[1] = T_TheAb
    /\ TitleOf(1) = T_theAb
    /\ normalize_title(T_TheAb) = T_ab
    /\ normalize_title(T_theAb) = <<"t", "h", "e", " ", "a", "b">>
    /\ Has("start", 1)

(* ------------------- the end of the Persisting stage ------------------- *)

LastPost == storage_posts[Len(storage_posts)]

\* generate_practice has just left the Persisting stage
Persisted ==
    /\ calls.storage = 1
    /\ ppc \in {"Completed", "Failed"}
    /\ storage_posts # <<>>

\* C21 as stated: a 200 or 201 answer of the storage backend completes the
\* pipeline, which returns the stored representation; another status makes
\* it fail and return no record.
C21_SavedStatusCompletes ==
    Persisted =>
        IF LastPost.status \in {200, 201}
        THEN /\ ppc = "Completed"
             /\ returned = [json |-> TRUE, id |-> Len(storage_posts), practice |-> record]
        ELSE /\ ppc = "Failed"
             /\ failedAt = "Persisting"
             /\ returned = NoReturn

\* C21 amended: a 200 or 201 answer whose body decodes as JSON completes the
\* pipeline, which returns the decoded body; a 200 or 201 answer whose body
\* does not decode, and every other status, makes it fail and return no record.
C21_SavedAndDecodedCompletes ==
    /\ Persisted =>
          IF LastPost.status \in {200, 201} /\ LastPost.json
          THEN /\ ppc = "Completed"
               /\ returned = [json |-> TRUE, id |-> Len(storage_posts), practice |-> record]
               /\ returned.practice = LastPost.body
          ELSE /\ ppc = "Failed"
               /\ failedAt = "Persisting"
               /\ returned = NoReturn
    /\ ppc # "Completed" => returned = NoReturn

\* the backend answered 201 with a body that is not JSON: the record is
\* stored and the pipeline has failed
C21_Witness ==
    /\ Persisted
    /\ LastPost.status = 201
    /\ ~LastPost.json
    /\ ppc = "Failed"
    /\ returned = NoReturn

\* C22: a request that failed in a stage of the pipeline ended with the error
\* kind of that stage: RetrievalFailed, GenerationBackendError,
\* MalformedGenerationOutput, SchemaValidationFailed with the violations, or
\* PersistFailed.
C22_ErrorKindPerStage ==
    (ppc = "Failed" /\ failedAt # "Similar") =>
        /\ raised.type =
              (CASE failedAt = "Retrieving" -> "RetrievalFailed"
                 [] failedAt = "Generating" -> "GenerationBackendError"
                 [] failedAt = "Parsing" -> "MalformedGenerationOutput"
                 [] failedAt = "Validating" -> "SchemaValidationFailed"
                 [] failedAt = "Persisting" -> "PersistFailed"
                 [] OTHER -> "none")
        /\ failedAt = "Validating" => raised.violations # {}

(* --------------------------- the end of a run -------------------------- *)

\* C23: a run that is not stopped from outside gets to the end of the source
\* and logs the summary; the summary is logged once, when every chunk has
\* been gone through, and nothing is logged after it.
C23_RunEndsWithOneSummary ==
    /\ \A r \in 1..MaxRuns :
          (run = r /\ bpc = "boot") ~> ((run = r /\ bpc = "done") \/ run > r)
    /\ <>[](bpc = "done")
    /\ [](/\ Count(log, "summary") <= 1
          /\ bpc = "done" <=> Count(log, "summary") = 1
          /\ bpc = "done" =>
                /\ i = Len(source)
                /\ log[Len(log)] = Ev("summary", Len(source))
                /\ \A j \in 1..Len(source) :
                      IsItem(j) => Has("skip", j) \/ Has("created", j) \/ Has("failed", j))

\* a run with a failed item, a created item and a skipped item has logged
\* its summary
C23_Witness ==
    /\ bpc = "done"
    /\ Len(source) = 3
    /\ Has("failed", 1)
    /\ Has("created", 2)
    /\ Has("skip", 3)
    /\ Has("summary", 3)

\* C24: the success file and the success set get a title only as the step
\* after the success message of its request, the file first; an attempt that
\* failed changes neither, and no attempt writes both the success file and
\* the failure log.
C24_SuccessOnlyAfterSuccessStatus ==
    /\ [][success_file' # success_file =>
             /\ success_file' = Append(success_file, TitleOf(i))
             /\ log[Len(log)] = Ev("created", i)
             /\ ~Has("failed", i)
             /\ UNCHANGED failed_practices_file]_vars
    /\ [][(successful_practices' # successful_practices /\ bpc # "boot" /\ bpc' # "boot") =>
             /\ successful_practices' = successful_practices \cup {KeyOf(i)}
             /\ Has("created", i)
             /\ ~Has("failed", i)
             /\ success_file # <<>>
             /\ success_file[Len(success_file)] = TitleOf(i)]_vars
    /\ [][failed_practices_file' # failed_practices_file =>
             /\ failed_practices_file' = Append(failed_practices_file, TitleOf(i))
             /\ ~Has("created", i)
             /\ UNCHANGED <<success_file, successful_practices>>]_vars
    /\ [][(i > 0 /\ i' = i /\ run' = run /\ Has("failed", i)) =>
             UNCHANGED <<success_file, successful_practices>>]_vars
    /\ [](\A j \in 1..Len(source) : ~(Has("created", j) /\ Has("failed", j)))

\* the first item failed and is in the failure log only, the second was
\* created and is in the success file and the success set only
C24_Witness ==
    /\ run = 1
    /\ Len(source) >= 2
    /\ Has("failed", 1)
    /\ Has("created", 2)
    /\ failed_practices_file = <<TitleOf(1)>>
    /\ success_file = <<TitleOf(2)>>
    /\ successful_practices = {KeyOf(2)}
    /\ KeyOf(1) # KeyOf(2)

=============================================================================
